---- MODULE Spec2Model ----
(***************************************************************************)
(* A model of the vartalap web application: the two session-guarded page   *)
(* routes (Home at "/" and ComingSoon at "/home"), the call-to-action      *)
(* buttons with their local loading flags, and the HeroCube animation.     *)
(*                                                                         *)
(* The specifications share the variables; each moves one part of the      *)
(* program and leaves the rest alone:                                      *)
(*   SpecPages    requests to "/" and "/home" under an external session    *)
(*   SpecStableSession  the same, the session changing only between       *)
(*                navigations                                              *)
(*   SpecButtons  the five buttons, their timers and the sign-out promise  *)
(*   SpecSignIn   the buttons together with the SignIn page that their     *)
(*                links lead to                                            *)
(*   SpecCube     the HeroCube effect: frames, pointer, resize, teardown   *)
(*   SpecTurns    the HeroCube frames alone, with every turn choice and    *)
(*                followed further away from the solved cube               *)
(*   SpecRelabel  the index relabeling of a turn on its own, applied to    *)
(*                the index maps a few relabelings away from the start     *)
(* FairButtons and FairCube add the fairness the browser's scheduling      *)
(* gives (timers fire, promises settle, frames keep coming).               *)
(***************************************************************************)
EXTENDS Integers, Sequences, FiniteSets, TLC

VARIABLES
  \* ---- pages (src/src/app/page.tsx, src/unnamed/part_002)
  authSession,   \* what the external auth() returns at this moment
  pgPath,        \* route of the request being served
  pgPc,          \* "idle" | "auth" (awaiting auth()) | "run" | "done"
  pgSession,     \* the page function's local const session
  pgOut,         \* outcome of the page function: redirect target and content
  pgHops         \* redirects followed for the current navigation

VARIABLES
  \* ---- buttons (cta-buttons.tsx, src/unnamed/part_001)
  host,          \* page mounted in the tab: "none" | "landing" | "home" | "notify" | "signin"
  gen,           \* number of mounts so far; the mounted instances belong to mount gen
  isLoading,     \* button -> the isLoading state of its mounted instance
  isNotified,    \* NotifyMeButton's isNotified state
  timers,        \* pending setTimeout callbacks, each [kind, gen]
  soPending,     \* mounts whose SignOutButton has a signOut() promise in flight
  soCalls,       \* signOut() calls made so far
  nav,           \* navigation of this tab in flight: NoNav | "/signin" | "/"
  navBy,         \* the button whose click started the navigation in flight
  soRejections,  \* signOut() promises that have rejected so far
  errorsLogged,  \* console.error calls so far
  unhandled,     \* a rejection has escaped handleSignOut
  staleUpdate    \* a state setter has run for an instance that is no longer mounted

VARIABLES
  \* ---- HeroCube (cta-buttons.tsx lines 110-378), one mounted instance
  cubePc,        \* "running" after the effect has run, "disposed" after its cleanup
  animLoop,      \* renderer.setAnimationLoop has a callback installed
  listening,     \* onPointerMove is registered on window
  observing,     \* the ResizeObserver observes the container
  cubelets,      \* cubelet -> [idx (userData), pos, skew] in its parent's frame
  rootKids,      \* cubelets that are children of root
  tgKids,        \* cubelets that are children of turnGroup
  tgRot,         \* turnGroup.rotation, [x, y, z] in angle units
  nextTurnTime,  \* ticks until the next turn may start
  turning, turnAxis, layer, angle, dir,
  rootQuat,      \* root.quaternion, as a position on the one modelled rotation axis
  targetQuat,    \* targetQuat, on the same axis
  viewSize,      \* <<w, h>> given to camera.aspect and renderer.setSize
  net,           \* the turns made so far, a turn and its reverse cancelled
  pointerMoves,  \* pointermove events handled so far
  startPose,     \* cubelet -> its position (in root) when the latest turn started
  pauseClock     \* the pause in force ("first" since mount, "later" since a turn
                 \* completed, "none" during a turn), its length, and the frame
                 \* time (sum of getDelta()) counted against it

VARIABLES
  \* ---- the SignIn page (src/unnamed/part_003)
  siRenders,     \* [gen, n]: the mount the page last rendered in, and its renders so far
  siEffectsDue,  \* a render is committed and its effects are not yet flushed
  siRan,         \* [gen, deps]: the mount the effect last ran in, and the deps it ran with
  siCalls        \* the signIn() calls made, each [gen, provider, callbackUrl]

pageVars == <<authSession, pgPath, pgPc, pgSession, pgOut, pgHops>>

buttonVars == <<host, gen, isLoading, isNotified, timers, soPending, soCalls,
                nav, navBy, soRejections, errorsLogged, unhandled, staleUpdate>>

cubeVars == <<cubePc, animLoop, listening, observing, cubelets, rootKids, tgKids, tgRot,
              nextTurnTime, turning, turnAxis, layer, angle, dir, rootQuat, targetQuat,
              viewSize, net, pointerMoves, startPose, pauseClock>>

signInVars == <<siRenders, siEffectsDue, siRan, siCalls>>

vars == <<pageVars, buttonVars, cubeVars, signInVars>>

\* what the actions of one part leave alone
outsidePages == <<buttonVars, cubeVars, signInVars>>

outsideButtons == <<pageVars, cubeVars, signInVars>>

outsideCube == <<pageVars, buttonVars, signInVars>>

outsideSignIn == <<pageVars, buttonVars, cubeVars>>

\* ------------------------------------------------------------------------
\* Sessions.  null is modelled as the string Null; a session is a record
\* whose user is either Null-like (absent) or a record of name and image.
\* ------------------------------------------------------------------------
Null == "<null>"

Names == {Null, "Ann", "Bob"}

Images == {Null, "https://img/ann.png"}

NoUser == [present |-> FALSE, name |-> Null, image |-> Null]

Users == {[present |-> TRUE, name |-> n, image |-> i] : n \in Names, i \in Images}

NoSession == [present |-> FALSE, user |-> NoUser]

Sessions == {NoSession} \cup {[present |-> TRUE, user |-> u] : u \in Users \cup {NoUser}}

\* session?.user is truthy
HasUser(s) == s.present /\ s.user.present

\* a ?? b
Coalesce(a, b) == IF a = Null THEN b ELSE a

NoRedirect == "<none>"

NoContent == [page |-> "<nothing>", avatarSrc |-> Null, avatarAlt |-> Null,
              userName |-> Null, signOutButton |-> FALSE]

LandingContent == [page |-> "landing", avatarSrc |-> Null, avatarAlt |-> Null,
                   userName |-> Null, signOutButton |-> FALSE]

\* redirect() throws, so nothing after it in the page function is rendered
Redirect(target) == [redirect |-> target, content |-> NoContent]

\* Home as it would be if it tested the user's name instead of the user
HomeNeedsName(s) ==
  IF HasUser(s) /\ s.user.name # Null THEN Redirect("/home")
  ELSE [redirect |-> NoRedirect, content |-> LandingContent]

\* Home as it would be with the session test inverted
HomeInverted(s) ==
  IF ~HasUser(s) THEN Redirect("/home")
  ELSE [redirect |-> NoRedirect, content |-> LandingContent]

\* Home as it would be if it tested the session instead of session?.user
HomeRedirectsOnSession(s) ==
  IF s.present THEN Redirect("/home")
  ELSE [redirect |-> NoRedirect, content |-> LandingContent]

\* Home: redirect("/home") when session?.user, the landing content otherwise
Home(s) ==
  IF HasUser(s) THEN Redirect("/home")
  ELSE [redirect |-> NoRedirect, content |-> LandingContent]

\* ComingSoon as it would be if it tested the session instead of session?.user
ComingSoonSessionOnly(s) ==
  IF ~s.present THEN Redirect("/")
  ELSE [redirect |-> NoRedirect,
        content |-> [page |-> "coming-soon",
                     avatarSrc |-> Coalesce(s.user.image, "/placeholder-avatar.png"),
                     avatarAlt |-> Coalesce(s.user.name, "User"),
                     userName |-> s.user.name,
                     signOutButton |-> TRUE]]

\* ComingSoon: redirect("/") when !session?.user, else the header with the
\* user's avatar and name and the sign-out button
ComingSoon(s) ==
  IF ~HasUser(s) THEN Redirect("/")
  ELSE [redirect |-> NoRedirect,
        content |-> [page |-> "coming-soon",
                     avatarSrc |-> Coalesce(s.user.image, "/placeholder-avatar.png"),
                     avatarAlt |-> Coalesce(s.user.name, "User"),
                     userName |-> s.user.name,
                     signOutButton |-> TRUE]]

Routes == {"/", "/home"}

PageFn(path, s) == IF path = "/" THEN Home(s) ELSE ComingSoon(s)

NoOutcome == [redirect |-> NoRedirect, content |-> NoContent]

MaxHops == 3

InitPages ==
  /\ authSession = NoSession
  /\ pgPath = "/"
  /\ pgPc = "idle"
  /\ pgSession = NoSession
  /\ pgOut = NoOutcome
  /\ pgHops = 0

\* the browser asks for a route; the page function starts and awaits auth()
Request(path) ==
  /\ pgPc \in {"idle", "done"}
  /\ pgPath' = path
  /\ pgPc' = "auth"
  /\ pgSession' = NoSession
  /\ pgOut' = NoOutcome
  /\ pgHops' = 0
  /\ UNCHANGED authSession
  /\ UNCHANGED outsidePages

\* const session = await auth()
AuthReturns ==
  /\ pgPc = "auth"
  /\ pgSession' = authSession
  /\ pgPc' = "run"
  /\ UNCHANGED <<authSession, pgPath, pgOut, pgHops>>
  /\ UNCHANGED outsidePages

\* the rest of the page function: the redirect test and the returned markup
PageRuns ==
  /\ pgPc = "run"
  /\ pgOut' = PageFn(pgPath, pgSession)
  /\ pgPc' = "done"
  /\ UNCHANGED <<authSession, pgPath, pgSession, pgHops>>
  /\ UNCHANGED outsidePages

\* the framework turns the thrown redirect into a new request for its target
FollowRedirect ==
  /\ pgPc = "done"
  /\ pgOut.redirect # NoRedirect
  /\ pgHops < MaxHops
  /\ pgPath' = pgOut.redirect
  /\ pgPc' = "auth"
  /\ pgSession' = NoSession
  /\ pgOut' = NoOutcome
  /\ pgHops' = pgHops + 1
  /\ UNCHANGED authSession
  /\ UNCHANGED outsidePages

\* the auth provider signs the user in or out between (or during) requests
SessionChanges(s) ==
  /\ s # authSession
  /\ authSession' = s
  /\ UNCHANGED <<pgPath, pgPc, pgSession, pgOut, pgHops>>
  /\ UNCHANGED outsidePages

NextPages ==
  \/ \E p \in Routes : Request(p)
  \/ AuthReturns
  \/ PageRuns
  \/ FollowRedirect
  \/ \E s \in Sessions : SessionChanges(s)

\* no navigation is under way: nothing was requested yet, or the last
\* request has rendered its page
AtRest == pgPc = "idle" \/ (pgPc = "done" /\ pgOut.redirect = NoRedirect)

\* the session changes only between navigations: auth() returns the same
\* value to every request of one navigation
SessionChangesAtRest(s) == AtRest /\ SessionChanges(s)

NextStableSession ==
  \/ \E p \in Routes : Request(p)
  \/ AuthReturns
  \/ PageRuns
  \/ FollowRedirect
  \/ \E s \in Sessions : SessionChangesAtRest(s)

\* ------------------------------------------------------------------------
\* Buttons.  GetStartedButton, SignInButton and WatchDemoButton are rendered
\* by the landing page, SignOutButton by the /home page; NotifyMeButton is
\* exported for a host of its own.  A client-side route change unmounts the
\* page but keeps the document, so timers and promises of the old instances
\* still run; a document load discards them.
\* ------------------------------------------------------------------------
Buttons == {"GetStarted", "SignIn", "WatchDemo", "NotifyMe", "SignOut"}

LinkButtons == {"GetStarted", "SignIn"}

HostOf(b) ==
  CASE b \in {"GetStarted", "SignIn", "WatchDemo"} -> "landing"
    [] b = "SignOut" -> "home"
    [] OTHER -> "notify"

ButtonHosts == {"landing", "home", "notify"}

Mounted(b) == host = HostOf(b)

NoNav == "<none>"

NoButton == "<none>"

AllIdle == [b \in Buttons |-> FALSE]

MaxMounts == 2

MaxSignOuts == 2

InitButtons ==
  /\ host = "none"
  /\ gen = 0
  /\ isLoading = AllIdle         \* useState(false)
  /\ isNotified = FALSE          \* useState(false)
  /\ timers = <<>>
  /\ soPending = {}
  /\ soCalls = 0
  /\ nav = NoNav
  /\ navBy = NoButton
  /\ soRejections = 0
  /\ errorsLogged = 0
  /\ unhandled = FALSE
  /\ staleUpdate = FALSE

RemoveAt(q, j) == [i \in 1..(Len(q) - 1) |-> IF i < j THEN q[i] ELSE q[i + 1]]

\* React mounts a page: every button on it starts from useState(false)
Mount(h) ==
  /\ host = "none"
  /\ nav = NoNav
  /\ gen < MaxMounts
  /\ host' = h
  /\ gen' = gen + 1
  /\ isLoading' = AllIdle
  /\ isNotified' = FALSE
  /\ UNCHANGED <<timers, soPending, soCalls, nav, navBy, soRejections, errorsLogged, unhandled,
                 staleUpdate>>
  /\ UNCHANGED outsideButtons

\* a client-side route change elsewhere unmounts the page; its state is gone
Unmount ==
  /\ host # "none"
  /\ nav = NoNav
  /\ host' = "none"
  /\ isLoading' = AllIdle
  /\ isNotified' = FALSE
  /\ UNCHANGED <<gen, timers, soPending, soCalls, nav, navBy, soRejections, errorsLogged, unhandled,
                 staleUpdate>>
  /\ UNCHANGED outsideButtons

\* the link without its onClick handler: it navigates and sets no flag
ClickLinkNoFlag(b, modified) ==
  /\ Mounted(b)
  /\ nav' = IF modified THEN nav ELSE "/signin"
  /\ navBy' = IF modified THEN navBy ELSE b
  /\ UNCHANGED <<host, gen, isLoading, isNotified, timers, soPending, soCalls,
                 soRejections, errorsLogged, unhandled, staleUpdate>>
  /\ UNCHANGED outsideButtons

\* a click on <Link href="/signin" onClick={handleClick}>: handleClick sets
\* isLoading, then the link navigates this tab; a modified click (ctrl, meta,
\* middle button) opens the target elsewhere and leaves this tab where it is
ClickLink(b, modified) ==
  /\ Mounted(b)
  /\ isLoading' = [isLoading EXCEPT ![b] = TRUE]
  /\ nav' = IF modified THEN nav ELSE "/signin"
  /\ navBy' = IF modified THEN navBy ELSE b
  /\ UNCHANGED <<host, gen, isNotified, timers, soPending, soCalls, soRejections, errorsLogged,
                 unhandled, staleUpdate>>
  /\ UNCHANGED outsideButtons

\* WatchDemoButton.handleClick on a button that is never disabled
ClickWatchDemoNotDisabled ==
  /\ Mounted("WatchDemo")
  /\ isLoading' = [isLoading EXCEPT !["WatchDemo"] = TRUE]
  /\ timers' = Append(timers, [kind |-> "watchDemoReset", gen |-> gen])
  /\ UNCHANGED <<host, gen, isNotified, soPending, soCalls, nav, navBy, soRejections, errorsLogged,
                 unhandled, staleUpdate>>
  /\ UNCHANGED outsideButtons

\* WatchDemoButton.handleClick; the button is disabled while isLoading
ClickWatchDemo ==
  /\ Mounted("WatchDemo")
  /\ ~isLoading["WatchDemo"]
  /\ isLoading' = [isLoading EXCEPT !["WatchDemo"] = TRUE]
  /\ timers' = Append(timers, [kind |-> "watchDemoReset", gen |-> gen])
  /\ UNCHANGED <<host, gen, isNotified, soPending, soCalls, nav, navBy, soRejections, errorsLogged,
                 unhandled, staleUpdate>>
  /\ UNCHANGED outsideButtons

\* the instance of button b created by mount g is still the mounted one
Live(b, g) == Mounted(b) /\ g = gen

\* the 2000 ms callback without its setIsLoading(false)
WatchDemoTimerNoReset(j) ==
  /\ j \in 1..Len(timers)
  /\ timers[j].kind = "watchDemoReset"
  /\ timers' = RemoveAt(timers, j)
  /\ UNCHANGED <<host, gen, isLoading, isNotified, soPending, soCalls, nav, navBy,
                 soRejections, errorsLogged, unhandled, staleUpdate>>
  /\ UNCHANGED outsideButtons

\* setTimeout(() => setIsLoading(false), 2000)
WatchDemoTimer(j) ==
  /\ j \in 1..Len(timers)
  /\ timers[j].kind = "watchDemoReset"
  /\ timers' = RemoveAt(timers, j)
  /\ IF Live("WatchDemo", timers[j].gen)
       THEN /\ isLoading' = [isLoading EXCEPT !["WatchDemo"] = FALSE]
            /\ UNCHANGED staleUpdate
       ELSE /\ staleUpdate' = TRUE
            /\ UNCHANGED isLoading
  /\ UNCHANGED <<host, gen, isNotified, soPending, soCalls, nav, navBy, soRejections, errorsLogged,
                 unhandled>>
  /\ UNCHANGED outsideButtons

\* NotifyMeButton.handleNotifyMe; the button is disabled while isLoading and
\* the button rendered while isNotified has no onClick
ClickNotifyMe ==
  /\ Mounted("NotifyMe")
  /\ ~isNotified
  /\ ~isLoading["NotifyMe"]
  /\ isLoading' = [isLoading EXCEPT !["NotifyMe"] = TRUE]
  /\ timers' = Append(timers, [kind |-> "notifyDone", gen |-> gen])
  /\ UNCHANGED <<host, gen, isNotified, soPending, soCalls, nav, navBy, soRejections, errorsLogged,
                 unhandled, staleUpdate>>
  /\ UNCHANGED outsideButtons

\* the 1500 ms callback without its setIsLoading(false)
NotifyDoneTimerKeepsLoading(j) ==
  /\ j \in 1..Len(timers)
  /\ timers[j].kind = "notifyDone"
  /\ timers' = Append(RemoveAt(timers, j), [kind |-> "notifyReset", gen |-> timers[j].gen])
  /\ IF Live("NotifyMe", timers[j].gen)
       THEN /\ isNotified' = TRUE
            /\ UNCHANGED <<isLoading, staleUpdate>>
       ELSE /\ staleUpdate' = TRUE
            /\ UNCHANGED <<isLoading, isNotified>>
  /\ UNCHANGED <<host, gen, soPending, soCalls, nav, navBy, soRejections, errorsLogged, unhandled>>
  /\ UNCHANGED outsideButtons

\* the 1500 ms callback: setIsLoading(false); setIsNotified(true); and the
\* 3000 ms reset timer is scheduled
NotifyDoneTimer(j) ==
  /\ j \in 1..Len(timers)
  /\ timers[j].kind = "notifyDone"
  /\ timers' = Append(RemoveAt(timers, j), [kind |-> "notifyReset", gen |-> timers[j].gen])
  /\ IF Live("NotifyMe", timers[j].gen)
       THEN /\ isLoading' = [isLoading EXCEPT !["NotifyMe"] = FALSE]
            /\ isNotified' = TRUE
            /\ UNCHANGED staleUpdate
       ELSE /\ staleUpdate' = TRUE
            /\ UNCHANGED <<isLoading, isNotified>>
  /\ UNCHANGED <<host, gen, soPending, soCalls, nav, navBy, soRejections, errorsLogged, unhandled>>
  /\ UNCHANGED outsideButtons

\* setTimeout(() => setIsNotified(false), 3000)
NotifyResetTimer(j) ==
  /\ j \in 1..Len(timers)
  /\ timers[j].kind = "notifyReset"
  /\ timers' = RemoveAt(timers, j)
  /\ IF Live("NotifyMe", timers[j].gen)
       THEN /\ isNotified' = FALSE
            /\ UNCHANGED staleUpdate
       ELSE /\ staleUpdate' = TRUE
            /\ UNCHANGED isNotified
  /\ UNCHANGED <<host, gen, isLoading, soPending, soCalls, nav, navBy, soRejections, errorsLogged,
                 unhandled>>
  /\ UNCHANGED outsideButtons

\* handleSignOut on a button that is never disabled
ClickSignOutNotDisabled ==
  /\ Mounted("SignOut")
  /\ soCalls < MaxSignOuts
  /\ isLoading' = [isLoading EXCEPT !["SignOut"] = TRUE]
  /\ soPending' = soPending \cup {gen}
  /\ soCalls' = soCalls + 1
  /\ UNCHANGED <<host, gen, isNotified, timers, nav, navBy, soRejections, errorsLogged, unhandled,
                 staleUpdate>>
  /\ UNCHANGED outsideButtons

\* SignOutButton.handleSignOut up to the await; the button is disabled while
\* isLoading
ClickSignOut ==
  /\ Mounted("SignOut")
  /\ ~isLoading["SignOut"]
  /\ soCalls < MaxSignOuts
  /\ isLoading' = [isLoading EXCEPT !["SignOut"] = TRUE]
  /\ soPending' = soPending \cup {gen}
  /\ soCalls' = soCalls + 1
  /\ UNCHANGED <<host, gen, isNotified, timers, nav, navBy, soRejections, errorsLogged, unhandled,
                 staleUpdate>>
  /\ UNCHANGED outsideButtons

\* signOut({callbackUrl: "/", redirect: true}) fulfils: the library sends the
\* document to the callback URL; handleSignOut returns with isLoading as it is
SignOutResolves(g) ==
  /\ g \in soPending
  /\ soPending' = soPending \ {g}
  /\ nav' = "/"
  /\ navBy' = "SignOut"
  /\ UNCHANGED <<host, gen, isLoading, isNotified, timers, soCalls, soRejections, errorsLogged,
                 unhandled, staleUpdate>>
  /\ UNCHANGED outsideButtons

\* handleSignOut without the reset in its catch block
SignOutRejectsNoReset(g) ==
  /\ g \in soPending
  /\ soPending' = soPending \ {g}
  /\ soRejections' = soRejections + 1
  /\ errorsLogged' = errorsLogged + 1
  /\ UNCHANGED <<host, gen, isLoading, isNotified, timers, soCalls, nav, navBy,
                 unhandled, staleUpdate>>
  /\ UNCHANGED outsideButtons

\* signOut() rejects: catch (error) { setIsLoading(false); console.error(...) }
SignOutRejects(g) ==
  /\ g \in soPending
  /\ soPending' = soPending \ {g}
  /\ IF Live("SignOut", g)
       THEN /\ isLoading' = [isLoading EXCEPT !["SignOut"] = FALSE]
            /\ UNCHANGED staleUpdate
       ELSE /\ staleUpdate' = TRUE
            /\ UNCHANGED isLoading
  /\ soRejections' = soRejections + 1
  /\ errorsLogged' = errorsLogged + 1
  /\ UNCHANGED <<host, gen, isNotified, timers, soCalls, nav, navBy, unhandled>>
  /\ UNCHANGED outsideButtons

\* the navigation in flight commits.  To "/signin" it is a client-side
\* transition (the document stays, pending callbacks survive); to "/" it is
\* the document load that signOut asked for, which discards them
NavigationCompletes ==
  /\ nav # NoNav
  /\ host' = IF nav = "/signin" THEN "signin" ELSE "none"
  /\ isLoading' = AllIdle
  /\ isNotified' = FALSE
  /\ timers' = IF nav = "/" THEN <<>> ELSE timers
  /\ soPending' = IF nav = "/" THEN {} ELSE soPending
  /\ nav' = NoNav
  /\ navBy' = NoButton
  /\ UNCHANGED <<gen, soCalls, soRejections, errorsLogged, unhandled, staleUpdate>>
  /\ UNCHANGED outsideButtons

TimerFires ==
  \E j \in 1..Len(timers) :
    WatchDemoTimer(j) \/ NotifyDoneTimer(j) \/ NotifyResetTimer(j)

SignOutSettles == \E g \in soPending : SignOutResolves(g) \/ SignOutRejects(g)

NextButtons ==
  \/ \E h \in ButtonHosts : Mount(h)
  \/ Unmount
  \/ \E b \in LinkButtons, m \in BOOLEAN : ClickLink(b, m)
  \/ ClickWatchDemo
  \/ ClickNotifyMe
  \/ ClickSignOut
  \/ \E j \in 1..Len(timers) : WatchDemoTimer(j)
  \/ \E j \in 1..Len(timers) : NotifyDoneTimer(j)
  \/ \E j \in 1..Len(timers) : NotifyResetTimer(j)
  \/ \E g \in soPending : SignOutResolves(g)
  \/ \E g \in soPending : SignOutRejects(g)
  \/ NavigationCompletes

\* ------------------------------------------------------------------------
\* The SignIn page, mounted when the tab shows "/signin".  Its one effect is
\* useEffect(() => { void signIn("google", { callbackUrl: "/home" }) }, []).
\* ------------------------------------------------------------------------

\* the dependency array of the effect: []
SignInDeps == <<>>

\* nothing rendered and no effect run yet (mounts are numbered from 1)
NoRender == [gen |-> 0, n |-> 0]

NoEffectRun == [gen |-> 0, deps |-> SignInDeps]

MaxRenders == 3

InitSignIn ==
  /\ siRenders = NoRender
  /\ siEffectsDue = FALSE
  /\ siRan = NoEffectRun
  /\ siCalls = <<>>

\* renders of the SignIn instance of the current mount so far
RendersNow == IF siRenders.gen = gen THEN siRenders.n ELSE 0

\* an effect with no dependency array: it runs after every render
RunsAfterEveryRender(ranInThisMount, prevDeps, deps) == TRUE

\* React runs an effect after the first render of a mount, and after a later
\* render when its dependencies differ from those of the previous render
ShouldRunEffect(ranInThisMount, prevDeps, deps) == ~ranInThisMount \/ prevDeps # deps

\* the page renders: the first time on mount, later because React renders it
\* again; the effects of the previous render have been flushed by then
RenderSignIn ==
  /\ host = "signin"
  /\ RendersNow < MaxRenders
  /\ siEffectsDue => siRenders.gen # gen
  /\ siRenders' = [gen |-> gen, n |-> RendersNow + 1]
  /\ siEffectsDue' = TRUE
  /\ UNCHANGED <<siRan, siCalls>>
  /\ UNCHANGED outsideSignIn

\* React flushes the effects of the committed render
FlushSignInEffects ==
  /\ host = "signin"
  /\ siRenders.gen = gen
  /\ siEffectsDue
  /\ siEffectsDue' = FALSE
  /\ IF ShouldRunEffect(siRan.gen = gen, siRan.deps, SignInDeps)
       THEN /\ siCalls' = Append(siCalls, [gen |-> gen, provider |-> "google",
                                          callbackUrl |-> "/home"])
            /\ siRan' = [gen |-> gen, deps |-> SignInDeps]
       ELSE UNCHANGED <<siRan, siCalls>>
  /\ UNCHANGED siRenders
  /\ UNCHANGED outsideSignIn

\* the tab with its buttons and the SignIn page
NextSignIn ==
  \/ \E h \in ButtonHosts : Mount(h)
  \/ Unmount
  \/ \E b \in LinkButtons, m \in BOOLEAN : ClickLink(b, m)
  \/ ClickWatchDemo
  \/ ClickNotifyMe
  \/ ClickSignOut
  \/ \E j \in 1..Len(timers) : WatchDemoTimer(j)
  \/ \E j \in 1..Len(timers) : NotifyDoneTimer(j)
  \/ \E j \in 1..Len(timers) : NotifyResetTimer(j)
  \/ \E g \in soPending : SignOutResolves(g)
  \/ \E g \in soPending : SignOutRejects(g)
  \/ NavigationCompletes
  \/ RenderSignIn
  \/ FlushSignInEffects

\* ------------------------------------------------------------------------
\* HeroCube.  Time is counted in ticks of 0.1 ms.  Angles are counted in
\* units of (pi/2)/TurnDuration, so that the per-frame step
\* (pi/2 / turnDuration) * dt is dt units and a quarter turn is Quarter units.
\* ------------------------------------------------------------------------
TicksPerSecond == 10000

\* let nextTurnTime = 1.8
FirstTurnDelay == 18000

\* const turnDuration = 0.6
TurnDuration == 6000

\* Math.PI / 2: at (Math.PI / 2 / turnDuration) per second, turnDuration's worth
Quarter == TurnDuration

\* the least whole angle that is >= Math.PI / 2 - 1e-3 (1e-3 rad is 3.82 units)
SnapThreshold == 5997

\* 1.6 + Math.random() * 1.2 lies in [1.6, 2.8): one pause near each end
Pauses == {17991, 27986}

\* dt * 5
SlerpRate == 5

\* clock.getDelta(): no time, just under 0.2 s (three such steps end a turn
\* below the quarter, at the snap threshold), and three times that (which
\* overshoots the quarter when the turn is already under way)
Deltas == {0, 1999, 5997}

PositiveDeltas == Deltas \ {0}

Axes == {"x", "y", "z"}

Layers == {-1, 0, 1}

Dirs == {1, -1}

\* the cubelets, named by the (i, j, k) of their construction
Cubelets == Layers \X Layers \X Layers

AxisIndex(a) == CASE a = "x" -> 1 [] a = "y" -> 2 [] OTHER -> 3

NoRotation == [x |-> 0, y |-> 0, z |-> 0]

\* a vector turned by +90 degrees about axis a (right-handed, as Euler angles)
Rot90(a, v) ==
  CASE a = "x" -> <<v[1], -v[3], v[2]>>
    [] a = "y" -> <<v[3], v[2], -v[1]>>
    [] OTHER -> <<-v[2], v[1], v[3]>>

\* a vector turned by n quarter turns about axis a, n in 0..3
RotQ(a, n, v) ==
  CASE n = 0 -> v
    [] n = 1 -> Rot90(a, v)
    [] n = 2 -> Rot90(a, Rot90(a, v))
    [] OTHER -> Rot90(a, Rot90(a, Rot90(a, v)))

\* a cubelet's local transform turned by theta about axis a.  Whole quarter
\* turns are applied exactly; what is left of theta is kept as skew: a pose
\* with skew # 0 is off the 3x3x3 lattice.  (The cubelets are identical
\* boxes, so only their positions are kept, in units of spacing.)
RotAxis(a, theta, c) ==
  IF theta = 0 THEN c
  ELSE LET n == (theta \div Quarter) % 4
           r == theta % Quarter
       IN [idx |-> c.idx, pos |-> RotQ(a, n, c.pos), skew |-> c.skew + r]

\* the matrix of an Euler rotation in order XYZ applied to a local transform
ApplyEuler(rot, c) == RotAxis("x", rot.x, RotAxis("y", rot.y, RotAxis("z", rot.z, c)))

\* its inverse
ApplyEulerInverse(rot, c) ==
  RotAxis("z", -rot.z, RotAxis("y", -rot.y, RotAxis("x", -rot.x, c)))

\* The scene graph below root: sc = [cl, rootKids, tgKids, tgRot].

\* Object3D.attach keeps the child's world transform: the local transform
\* cubelet c gets under root ...
PoseInRoot(sc, c) ==
  IF c \in sc.tgKids THEN ApplyEuler(sc.tgRot, sc.cl[c]) ELSE sc.cl[c]

\* ... and under turnGroup
PoseInTurnGroup(sc, c) ==
  IF c \in sc.rootKids THEN ApplyEulerInverse(sc.tgRot, sc.cl[c]) ELSE sc.cl[c]

\* root.attach(c) for every c of cs, one after the other: each call moves
\* its own cubelet only, so the order does not matter
AttachAllToRoot(sc, cs) ==
  [cl |-> [c \in Cubelets |-> IF c \in cs THEN PoseInRoot(sc, c) ELSE sc.cl[c]],
   rootKids |-> sc.rootKids \cup (cs \cap sc.tgKids),
   tgKids |-> sc.tgKids \ cs,
   tgRot |-> sc.tgRot]

\* turnGroup.attach(c) for every c of cs
AttachAllToTurnGroup(sc, cs) ==
  [cl |-> [c \in Cubelets |-> IF c \in cs THEN PoseInTurnGroup(sc, c) ELSE sc.cl[c]],
   rootKids |-> sc.rootKids \ cs,
   tgKids |-> sc.tgKids \cup (cs \cap sc.rootKids),
   tgRot |-> sc.tgRot]

\* the cubelets whose logical index on axis a is l
InLayer(cl, a, l) == LET n == AxisIndex(a) IN {c \in Cubelets : cl[c].idx[n] = l}

\* an attachLayer that moves every cubelet into the turn group
AttachLayerNoTest(sc, a, l) ==
  LET reset == [sc EXCEPT !.tgRot = NoRotation]
      detached == IF reset.tgKids = {} THEN reset ELSE AttachAllToRoot(reset, reset.tgKids)
  IN AttachAllToTurnGroup(detached, Cubelets)

\* attachLayer(a, l)
AttachLayer(sc, a, l) ==
  LET reset == [sc EXCEPT !.tgRot = NoRotation]
      \* while (turnGroup.children.length) root.attach(turnGroup.children[0])
      detached == IF reset.tgKids = {} THEN reset ELSE AttachAllToRoot(reset, reset.tgKids)
  IN AttachAllToTurnGroup(detached, InLayer(detached.cl, a, l))

\* a relabeling that turns the indices the other way round
RotIndexMirrored(a, clockwise, v) ==
  LET i == v[1]
      j == v[2]
      k == v[3]
  IN CASE a = "x" -> <<i, IF clockwise > 0 THEN k ELSE -k, IF clockwise > 0 THEN -j ELSE j>>
       [] a = "y" -> <<IF clockwise > 0 THEN -k ELSE k, j, IF clockwise > 0 THEN i ELSE -i>>
       [] OTHER -> <<IF clockwise > 0 THEN j ELSE -j, IF clockwise > 0 THEN -i ELSE i, k>>

\* a relabeling that writes the first changed index and then reads it back
\* for the second
RotIndexInPlace(a, clockwise, v) ==
  LET i == v[1]
      j == v[2]
      k == v[3]
      j1 == IF clockwise > 0 THEN -k ELSE k
      i2 == IF clockwise > 0 THEN k ELSE -k
      i3 == IF clockwise > 0 THEN -j ELSE j
  IN CASE a = "x" -> <<i, j1, IF clockwise > 0 THEN j1 ELSE -j1>>
       [] a = "y" -> <<i2, j, IF clockwise > 0 THEN -i2 ELSE i2>>
       [] OTHER -> <<i3, IF clockwise > 0 THEN i3 ELSE -i3, k>>

\* a relabeling that turns the same way for either direction
RotIndexIgnoresDirection(a, clockwise, v) ==
  LET i == v[1]
      j == v[2]
      k == v[3]
  IN CASE a = "x" -> <<i, -k, j>>
       [] a = "y" -> <<k, j, -i>>
       [] OTHER -> <<-j, i, k>>

\* rot, the relabeling inside bakeAndUpdateIndices
RotIndex(a, clockwise, v) ==
  LET i == v[1]
      j == v[2]
      k == v[3]
  IN CASE a = "x" -> <<i, IF clockwise > 0 THEN -k ELSE k, IF clockwise > 0 THEN j ELSE -j>>
       [] a = "y" -> <<IF clockwise > 0 THEN k ELSE -k, j, IF clockwise > 0 THEN -i ELSE i>>
       [] OTHER -> <<IF clockwise > 0 THEN -j ELSE j, IF clockwise > 0 THEN i ELSE -i, k>>

\* cubelets.forEach((c) => { if (in layer l of a) c.userData = rot(c.userData) })
RelabelLayer(cl, a, l, clockwise) ==
  LET layerNow == InLayer(cl, a, l)
  IN [c \in Cubelets |->
        IF c \in layerNow THEN [cl[c] EXCEPT !.idx = RotIndex(a, clockwise, cl[c].idx)]
        ELSE cl[c]]

\* a bake that relabels every cubelet, without the layer test
BakeRelabelsAll(sc, a, l, clockwise) ==
  LET baked == AttachAllToRoot(sc, sc.tgKids)
  IN [baked EXCEPT
        !.cl = [c \in Cubelets |->
                  [baked.cl[c] EXCEPT !.idx = RotIndex(a, clockwise, baked.cl[c].idx)]],
        !.tgRot = NoRotation]

\* bakeAndUpdateIndices(a, l, clockwise)
BakeAndUpdateIndices(sc, a, l, clockwise) ==
  LET baked == AttachAllToRoot(sc, sc.tgKids)
  IN [baked EXCEPT !.cl = RelabelLayer(baked.cl, a, l, clockwise), !.tgRot = NoRotation]

\* addAxisRotation(turnGroup, a, delta)
AddAxisRotation(rot, a, delta) ==
  CASE a = "x" -> [rot EXCEPT !.x = rot.x + delta]
    [] a = "y" -> [rot EXCEPT !.y = rot.y + delta]
    [] OTHER -> [rot EXCEPT !.z = rot.z + delta]

\* setAxisRotation(turnGroup, a, value)
SetAxisRotation(rot, a, value) ==
  CASE a = "x" -> [rot EXCEPT !.x = value]
    [] a = "y" -> [rot EXCEPT !.y = value]
    [] OTHER -> [rot EXCEPT !.z = value]

Abs(n) == IF n < 0 THEN -n ELSE n

Min(a, b) == IF a < b THEN a ELSE b

\* a / b rounded toward zero
TruncDiv(a, b) == IF a >= 0 THEN a \div b ELSE -((-a) \div b)

\* a slerp whose fraction is dt * 5, not clamped to 1
SlerpUnclamped(q, target, dt) ==
  LET t == dt * SlerpRate
  IN IF t = 0 THEN q
     ELSE IF t = TicksPerSecond THEN target
     ELSE q + TruncDiv((target - q) * t, TicksPerSecond)

\* root.quaternion.slerp(targetQuat, Math.min(1, dt * 5)) on the modelled
\* axis: t = 0 leaves q, t = 1 copies the target, and in between q moves by
\* the fraction t of the gap.  Orientations are whole units and the move is
\* rounded toward q, so that, as in exact arithmetic, a fraction below 1
\* never closes a gap.
Slerp(q, target, dt) ==
  LET t == Min(TicksPerSecond, dt * SlerpRate)
  IN IF t = 0 THEN q
     ELSE IF t = TicksPerSecond THEN target
     ELSE q + TruncDiv((target - q) * t, TicksPerSecond)

\* window.innerWidth and the clientX values of pointer events
InnerWidth == 2

ClientXs == {0, 2}

\* container sizes <<clientWidth, clientHeight>>
ViewSizes == {<<1, 1>>, <<2, 1>>}

\* the x of the normalised device coordinates
Ndc(clientX) == (clientX * 2) \div InnerWidth - 1

\* updateOrientationFromPointer: the target orientation for a pointer position;
\* the unprojected ray spreads with the camera's aspect
PointerGain == 2

TargetFor(clientX, size) == (Ndc(clientX) * PointerGain * size[1]) \div size[2]

InitialCubelets ==
  [c \in Cubelets |-> [idx |-> c, pos |-> c, skew |-> 0]]

\* what pick(axes), pick([-1, 0, 1]) and the coin for dir can give
Picks == Axes \X Layers \X Dirs

\* a turn and its reverse about each axis, one in each layer
SomePicks ==
  {<<"x", 1, 1>>, <<"x", 1, -1>>, <<"y", 0, 1>>, <<"y", 0, -1>>, <<"z", -1, 1>>, <<"z", -1, -1>>}

\* the turn that undoes turn m
Reverse(m) == <<m[1], m[2], -m[3]>>

\* the turns made, with m added: a turn right after its reverse cancels it
NetAfter(w, m) ==
  IF Len(w) > 0 /\ w[Len(w)] = Reverse(m) THEN SubSeq(w, 1, Len(w) - 1) ELSE Append(w, m)

\* the model follows the cube at most MaxTurns net turns away from its start
MaxTurns == 1

MaxPointerMoves == 1

\* the same for a cube whose page is left alone (no pointer, resize or unmount)
MaxTurnsAlone == 2

InitCube ==
  /\ cubePc = "running"
  /\ animLoop = TRUE
  /\ listening = TRUE
  /\ observing = TRUE
  /\ cubelets = InitialCubelets
  /\ rootKids = Cubelets
  /\ tgKids = {}
  /\ tgRot = NoRotation
  /\ nextTurnTime = FirstTurnDelay
  /\ turning = FALSE
  /\ turnAxis = "y"
  /\ layer = 0
  /\ angle = 0
  /\ dir = 1
  /\ rootQuat = 0
  /\ targetQuat = 0
  /\ viewSize = <<1, 1>>
  /\ net = <<>>
  /\ pointerMoves = 0
  /\ startPose = [c \in Cubelets |-> c]
  /\ pauseClock = [kind |-> "first", pause |-> FirstTurnDelay, elapsed |-> 0]

Scene == [cl |-> cubelets, rootKids |-> rootKids, tgKids |-> tgKids, tgRot |-> tgRot]

\* the turn's bookkeeping: tn = [turning, turnAxis, layer, angle, dir, nextTurnTime]

\* a callback that never counts nextTurnTime down
BeforeTurnLogicNoCountdown(dt) ==
  [turning |-> turning, turnAxis |-> turnAxis, layer |-> layer,
   angle |-> angle, dir |-> dir, nextTurnTime |-> nextTurnTime]

\* nextTurnTime -= dt: the bookkeeping as the turn logic finds it
BeforeTurnLogic(dt) ==
  [turning |-> turning, turnAxis |-> turnAxis, layer |-> layer,
   angle |-> angle, dir |-> dir, nextTurnTime |-> nextTurnTime - dt]

\* the test without !turning
StartsWhileTurning(dt) ==
  LET tn0 == BeforeTurnLogic(dt)
  IN tn0.nextTurnTime <= 0

\* if (!turning && nextTurnTime <= 0)
Starts(dt) ==
  LET tn0 == BeforeTurnLogic(dt)
  IN ~tn0.turning /\ tn0.nextTurnTime <= 0

\* lines 329-333: a turn starts
StartTurn(tn, a, l, d) ==
  [tn EXCEPT !.turning = TRUE, !.angle = 0, !.turnAxis = a, !.layer = l, !.dir = d]

\* angle += Math.abs(step)
StepTurn(tn, dt) == [tn EXCEPT !.angle = @ + Abs(dt * tn.dir)]

\* if (angle >= Math.PI / 2 - 1e-3)
Snaps(tn) == tn.angle >= SnapThreshold

\* a finish that leaves the countdown where the turn has run it down to
FinishTurnKeepsCountdown(tn, pause) == [tn EXCEPT !.turning = FALSE]

\* turning = false; nextTurnTime = 1.6 + Math.random() * 1.2
FinishTurn(tn, pause) == [tn EXCEPT !.turning = FALSE, !.nextTurnTime = pause]

\* lines 327-349 of the callback, the bookkeeping; a, l, d and pause are
\* what Math.random() gives where the callback asks for it
TurnLogic(dt, a, l, d, pause) ==
  LET tn0 == BeforeTurnLogic(dt)
      tn1 == IF Starts(dt) THEN StartTurn(tn0, a, l, d) ELSE tn0
      tn2 == StepTurn(tn1, dt)
  IN IF ~tn1.turning THEN tn1
     ELSE IF Snaps(tn2) THEN FinishTurn(tn2, pause)
     ELSE tn2

\* the step of this frame ends a turn (one in progress, or one it starts)
Finishes(dt) ==
  /\ turning \/ Starts(dt)
  /\ ~TurnLogic(dt, turnAxis, layer, dir, 0).turning

\* addAxisRotation(turnGroup, turnAxis, step)
StepScene(sc, a, step) == [sc EXCEPT !.tgRot = AddAxisRotation(sc.tgRot, a, step)]

\* a finish that bakes the accumulated rotation as it is, without the snap
FinishSceneNoSnap(sc, a, l, d) ==
  LET baked == BakeAndUpdateIndices(sc, a, l, d)
  IN [baked EXCEPT !.tgRot = SetAxisRotation(baked.tgRot, a, 0)]

\* lines 343-345: snap to the quarter, bake, zero the turn group
FinishScene(sc, a, l, d) ==
  LET snapped == [sc EXCEPT !.tgRot = SetAxisRotation(sc.tgRot, a, Quarter * d)]
      baked == BakeAndUpdateIndices(snapped, a, l, d)
  IN [baked EXCEPT !.tgRot = SetAxisRotation(baked.tgRot, a, 0)]

\* lines 327-349 of the callback, the scene graph
SceneLogic(dt, a, l, d) ==
  LET tn0 == BeforeTurnLogic(dt)
      tn1 == IF Starts(dt) THEN StartTurn(tn0, a, l, d) ELSE tn0
      sc1 == IF Starts(dt) THEN AttachLayer(Scene, a, l) ELSE Scene
      tn2 == StepTurn(tn1, dt)
      sc2 == StepScene(sc1, tn1.turnAxis, dt * tn1.dir)
  IN IF ~tn1.turning THEN sc1
     ELSE IF Snaps(tn2) THEN FinishScene(sc2, tn2.turnAxis, tn2.layer, tn2.dir)
     ELSE sc2

\* lines 327-349 of the callback as a step of the turn state, for a cube
\* followed up to maxTurns net turns away from its start, whose turns
\* (Math.random's axis, layer and direction) are among picks
TurnStep(dt, maxTurns, picks) ==
  /\ \E a \in IF Starts(dt) THEN Axes ELSE {turnAxis},
        l \in IF Starts(dt) THEN Layers ELSE {layer},
        d \in IF Starts(dt) THEN Dirs ELSE {dir},
        pause \in IF Finishes(dt) THEN Pauses ELSE {0} :
       /\ Starts(dt) => <<a, l, d>> \in picks
       /\ Starts(dt) => Len(NetAfter(net, <<a, l, d>>)) <= maxTurns
       /\ net' = IF Starts(dt) THEN NetAfter(net, <<a, l, d>>) ELSE net
       /\ \E tn \in {TurnLogic(dt, a, l, d, pause)} :
            /\ nextTurnTime' = tn.nextTurnTime
            /\ turning' = tn.turning
            /\ turnAxis' = tn.turnAxis
            /\ layer' = tn.layer
            /\ angle' = tn.angle
            /\ dir' = tn.dir
       /\ \E sc \in {SceneLogic(dt, a, l, d)} :
            /\ cubelets' = sc.cl
            /\ rootKids' = sc.rootKids
            /\ tgKids' = sc.tgKids
            /\ tgRot' = sc.tgRot

\* the animation loop's callback with dt = clock.getDelta()
\* no pause is in force: a turn is in progress
NoPause == [kind |-> "none", pause |-> 0, elapsed |-> 0]

\* the pause clock after a frame of dt that leaves nextTurnTime at next: the
\* frame that completes a turn puts the chosen pause in force, a frame that
\* begins a turn or finds one in progress leaves none in force, any other
\* frame counts its dt
PauseClockAfter(dt, next) ==
  IF Finishes(dt) THEN [kind |-> "later", pause |-> next, elapsed |-> 0]
  ELSE IF turning \/ Starts(dt) THEN NoPause
  ELSE [pauseClock EXCEPT !.elapsed = @ + dt]

FrameWithin(dt, maxTurns, picks) ==
  /\ animLoop
  /\ UNCHANGED <<cubePc, animLoop, listening, observing, targetQuat, viewSize,
                 pointerMoves>>
  /\ UNCHANGED outsideCube
  /\ rootQuat' = Slerp(rootQuat, targetQuat, dt)
  /\ TurnStep(dt, maxTurns, picks)
  /\ startPose' = IF Starts(dt) THEN [c \in Cubelets |-> cubelets[c].pos] ELSE startPose

\* the callback of setAnimationLoop, with the pause clock kept alongside
Frame(dt) ==
  /\ FrameWithin(dt, MaxTurns, SomePicks)
  /\ pauseClock' = PauseClockAfter(dt, nextTurnTime')

\* onPointerMove
PointerMove(clientX) ==
  /\ listening
  /\ pointerMoves < MaxPointerMoves
  /\ targetQuat' = TargetFor(clientX, viewSize)
  /\ pointerMoves' = pointerMoves + 1
  /\ UNCHANGED <<cubePc, animLoop, listening, observing, cubelets, rootKids, tgKids, tgRot,
                 nextTurnTime, turning, turnAxis, layer, angle, dir, rootQuat, viewSize,
                 net, startPose, pauseClock>>
  /\ UNCHANGED outsideCube

\* a resize that also clears turnGroup's rotation
ResizeResetsTurnGroup(size) ==
  /\ observing
  /\ viewSize' = size
  /\ tgRot' = NoRotation
  /\ UNCHANGED <<cubePc, animLoop, listening, observing, cubelets, rootKids, tgKids,
                 nextTurnTime, turning, turnAxis, layer, angle, dir, rootQuat, targetQuat,
                 net, pointerMoves, startPose, pauseClock>>
  /\ UNCHANGED outsideCube

\* onResize, called by the ResizeObserver
Resize(size) ==
  /\ observing
  /\ viewSize' = size
  /\ UNCHANGED <<cubePc, animLoop, listening, observing, cubelets, rootKids, tgKids, tgRot,
                 nextTurnTime, turning, turnAxis, layer, angle, dir, rootQuat, targetQuat,
                 net, pointerMoves, startPose, pauseClock>>
  /\ UNCHANGED outsideCube

\* a cleanup that leaves the pointermove listener on the window
CleanupKeepsListener ==
  /\ cubePc = "running"
  /\ observing' = FALSE
  /\ animLoop' = FALSE
  /\ cubePc' = "disposed"
  /\ UNCHANGED <<listening, cubelets, rootKids, tgKids, tgRot, nextTurnTime, turning,
                 turnAxis, layer, angle, dir, rootQuat, targetQuat, viewSize, net,
                 pointerMoves, startPose, pauseClock>>
  /\ UNCHANGED outsideCube

\* the effect's cleanup
Cleanup ==
  /\ cubePc = "running"
  /\ observing' = FALSE       \* ro.disconnect()
  /\ listening' = FALSE       \* window.removeEventListener('pointermove', onPointerMove)
  /\ animLoop' = FALSE        \* renderer.setAnimationLoop(null)
  /\ cubePc' = "disposed"     \* renderer.dispose(), pmrem.dispose(), removeChild
  /\ UNCHANGED <<cubelets, rootKids, tgKids, tgRot, nextTurnTime, turning, turnAxis, layer,
                 angle, dir, rootQuat, targetQuat, viewSize, net,
                 pointerMoves, startPose, pauseClock>>
  /\ UNCHANGED outsideCube

\* a frame whose dt is positive
LaterFrame == \E dt \in PositiveDeltas : Frame(dt)

NextCube ==
  \/ \E dt \in Deltas : Frame(dt)
  \/ \E x \in ClientXs : PointerMove(x)
  \/ \E size \in ViewSizes : Resize(size)
  \/ Cleanup

\* the frames of a page that is left alone
\* (the pause clock is not kept here: these frames are followed for the
\* geometry of the turns)
NextTurns == \E dt \in Deltas : FrameWithin(dt, MaxTurnsAlone, Picks) /\ UNCHANGED pauseClock

\* the index maps studied are at most MaxRelabels net relabelings away from
\* the initial one
MaxRelabels == 2

\* the relabeling of bakeAndUpdateIndices(a, l, clockwise) on its own,
\* applied to the index map it finds
Relabel(a, l, clockwise) ==
  /\ Len(NetAfter(net, <<a, l, clockwise>>)) <= MaxRelabels
  /\ net' = NetAfter(net, <<a, l, clockwise>>)
  /\ cubelets' = RelabelLayer(cubelets, a, l, clockwise)
  /\ UNCHANGED <<cubePc, animLoop, listening, observing, rootKids, tgKids, tgRot, nextTurnTime,
                 turning, turnAxis, layer, angle, dir, rootQuat, targetQuat, viewSize,
                 pointerMoves, startPose, pauseClock>>
  /\ UNCHANGED outsideCube

NextRelabel == \E a \in Axes, l \in Layers, d \in Dirs : Relabel(a, l, d)

Init == InitPages /\ InitButtons /\ InitCube /\ InitSignIn

SpecPages == Init /\ [][NextPages]_vars

SpecStableSession == Init /\ [][NextStableSession]_vars

SpecButtons == Init /\ [][NextButtons]_vars

SpecSignIn == Init /\ [][NextSignIn]_vars

SpecCube == Init /\ [][NextCube]_vars

SpecTurns == Init /\ [][NextTurns]_vars

SpecRelabel == Init /\ [][NextRelabel]_vars

\* while the loop is installed the browser keeps calling it, and time passes
\* between calls
\* (every such frame changes nextTurnTime: it counts it down or, ending a
\* turn, sets it to the next pause)
FairCube == SpecCube /\ WF_nextTurnTime(LaterFrame)

\* timers fire, the signOut promise settles and a started navigation commits
FairButtons ==
  /\ SpecButtons
  /\ WF_vars(TimerFires)
  /\ WF_vars(SignOutSettles)
  /\ WF_vars(NavigationCompletes)

\* ------------------------------------------------------------------------
\* Properties of the pages
\* ------------------------------------------------------------------------

\* C1: whatever session auth() returned, once Home has run: a session with a
\* user gives redirect("/home") and no landing content; a session that is
\* absent or has no user gives no redirect and the landing content.
C1_HomeRedirectsIffUser ==
  (pgPc = "done" /\ pgPath = "/") =>
    /\ HasUser(pgSession) =>
         (pgOut.redirect = "/home" /\ pgOut.content.page # "landing")
    /\ ~HasUser(pgSession) =>
         (pgOut.redirect = NoRedirect /\ pgOut.content = LandingContent)

C1_Witness ==
  /\ pgPc = "done" /\ pgPath = "/"
  /\ HasUser(pgSession) /\ pgOut.redirect = "/home"

\* C2: once ComingSoon has run, the authenticated content (user name, avatar,
\* sign-out button) is in the outcome only when the session has a user;
\* without one the page redirects to "/" and renders nothing.
C2_ComingSoonGuarded ==
  (pgPc = "done" /\ pgPath = "/home") =>
    /\ (pgOut.content.signOutButton \/ pgOut.content.page = "coming-soon"
          \/ pgOut.content.avatarSrc # Null \/ pgOut.content.userName # Null)
         => HasUser(pgSession)
    /\ ~HasUser(pgSession) =>
         (pgOut.redirect = "/" /\ pgOut.content = NoContent)
    /\ HasUser(pgSession) =>
         (pgOut.redirect = NoRedirect /\ pgOut.content.signOutButton
          /\ pgOut.content.userName = pgSession.user.name)

C2_Witness ==
  /\ pgPc = "done" /\ pgPath = "/home"
  /\ pgSession.present /\ ~pgSession.user.present
  /\ pgOut.redirect = "/" /\ pgOut.content = NoContent

\* ------------------------------------------------------------------------
\* Properties of the buttons
\* ------------------------------------------------------------------------

\* isLoading of button b is set in its mounted instance
Loading(b) == Mounted(b) /\ isLoading[b]

\* C3 as stated: for each of the five buttons, once a click has set isLoading
\* while the component is mounted, isLoading becomes false again (unless the
\* component is unmounted first).
C3_EveryFlagResets ==
  \A b \in Buttons : Loading(b) ~> ~Loading(b)

\* C3 as amended: the flags of WatchDemoButton and NotifyMeButton are reset by
\* their timers; SignOutButton's flag is reset only by a rejected signOut and
\* otherwise stays set until the page is left; GetStartedButton and
\* SignInButton have no reset at all: once set, their flag stays set for as
\* long as the instance is mounted.
C3_ResetsWhereCoded ==
  /\ \A b \in {"WatchDemo", "NotifyMe", "SignOut"} : Loading(b) ~> ~Loading(b)
  /\ [][\A b \in LinkButtons : (Loading(b) /\ Mounted(b)') => isLoading'[b]]_vars
  /\ [][(Loading("SignOut") /\ Mounted("SignOut")' /\ ~isLoading'["SignOut"])
          => soRejections' = soRejections + 1]_vars

C3_Witness ==
  /\ host = "landing"
  /\ isLoading["GetStarted"] /\ nav = NoNav
  /\ isLoading["WatchDemo"] /\ Len(timers) > 0

\* C4: a navigation of the tab to "/signin" is in flight only after the click
\* handler of the link that started it has set that button's isLoading; the
\* navigation started by SignInButton or GetStartedButton commits to
\* "/signin"; and a further click on a loading link leaves isLoading true.
C4_LoadingThenNavigate ==
  /\ [](nav = "/signin" => (navBy \in LinkButtons /\ Loading(navBy)))
  /\ [][(nav = "/signin" /\ nav' = NoNav) => host' = "signin"]_vars
  /\ [][\A b \in LinkButtons :
          (Loading(b) /\ Mounted(b)') => isLoading'[b]]_vars
  /\ [][\A b \in LinkButtons :
          (Mounted(b) /\ nav' = "/signin" /\ navBy' = b /\ <<nav, navBy>> # <<nav', navBy'>>)
            => isLoading'[b]]_vars

C4_Witness ==
  /\ nav = "/signin" /\ navBy = "SignIn"
  /\ isLoading["SignIn"] /\ isLoading["GetStarted"]

\* C5: when a signOut() promise rejects, handleSignOut logs one error, puts
\* isLoading of its (still mounted) button back to false and lets nothing
\* escape; the button then accepts a click that starts a new attempt.
C5_SignOutFailureHandled ==
  /\ [](~unhandled /\ errorsLogged = soRejections)
  /\ [][soRejections' # soRejections =>
          /\ errorsLogged' = errorsLogged + 1
          /\ \A g \in soPending \ soPending' :
               Live("SignOut", g) => (Mounted("SignOut")' /\ ~isLoading'["SignOut"])]_vars
  /\ []((Mounted("SignOut") /\ ~isLoading["SignOut"] /\ soCalls < MaxSignOuts)
          => ENABLED ClickSignOut)

C5_Witness ==
  /\ host = "home" /\ gen = 1
  /\ soRejections = 1 /\ errorsLogged = 1
  /\ soCalls = 2 /\ isLoading["SignOut"] /\ gen \in soPending

\* ------------------------------------------------------------------------
\* HeroCube: the layer turn
\* ------------------------------------------------------------------------

\* a turn has completed and none has started since: angle holds what the
\* completed turn accumulated, turnAxis, layer and dir say which turn it was
TurnCompleted == ~turning /\ angle >= SnapThreshold

\* the quarter turns, counted counterclockwise, that direction d stands for
QuartersOf(d) == IF d = 1 THEN 1 ELSE 3

\* C6: when a turn has completed, every cubelet of the turned layer stands
\* exactly a quarter turn (+90 degrees for dir = 1, -90 degrees for dir = -1)
\* about turnAxis away from where it stood when the turn started, with no
\* angle left over, whatever the frame steps added up to; every other cubelet
\* stands where it stood; and turnGroup's rotation is 0.
C6_TurnIsExactQuarter ==
  TurnCompleted =>
    /\ tgRot = NoRotation
    /\ \A c \in Cubelets :
         /\ cubelets[c].skew = 0
         /\ cubelets[c].pos =
              IF startPose[c][AxisIndex(turnAxis)] = layer
                THEN RotQ(turnAxis, QuartersOf(dir), startPose[c])
                ELSE startPose[c]

\* a turn in the negative direction has completed by a step that overshot the
\* quarter, on a cube that an earlier turn had already scrambled
C6_Witness ==
  /\ TurnCompleted
  /\ angle > Quarter
  /\ dir = -1
  /\ Len(net) = 2
  /\ \E c \in Cubelets : startPose[c] # c /\ cubelets[c].pos # startPose[c]

\* C7: whenever no turn is in progress, every cubelet is a child of the root
\* group and its logical index equals its grid position in the root's frame.
C7_IndexAgreesWithGeometry ==
  ~turning =>
    \A c \in Cubelets :
      /\ c \in rootKids
      /\ cubelets[c].skew = 0
      /\ cubelets[c].idx = cubelets[c].pos

\* two turns about different axes have completed and relabeled the cubelets
C7_Witness ==
  /\ TurnCompleted
  /\ Len(net) = 2
  /\ net[1][1] # net[2][1]
  /\ \E c \in Cubelets : cubelets[c].idx # c

\* C8: while frames keep coming with positive deltas (that is, unless the
\* component is torn down), a turn in progress completes, and turns start
\* again and again.
C8_TurnsRecur ==
  /\ turning ~> (~turning \/ cubePc = "disposed")
  /\ ([]<><<net' # net>>_vars) \/ <>(cubePc = "disposed")

\* a turn is under way that started after an earlier one had completed
C8_Witness ==
  /\ cubePc = "running"
  /\ turning
  /\ angle > 0
  /\ net = <<>>

\* ------------------------------------------------------------------------
\* HeroCube: the orientation
\* ------------------------------------------------------------------------

\* the least dt with 5 dt >= 1
FullStep == TicksPerSecond \div SlerpRate

\* what a frame with delta dt does to the orientation, as the claim has it
TowardTarget(dt) ==
  LET t == Min(TicksPerSecond, dt * SlerpRate)
      gap == Abs(targetQuat - rootQuat)
      moved == Abs(rootQuat' - rootQuat)
  IN /\ targetQuat' = targetQuat
     /\ t \in 0..TicksPerSecond
     \* by the fraction t of the gap, to the whole unit
     /\ moved * TicksPerSecond <= gap * t
     /\ moved * TicksPerSecond > gap * t - TicksPerSecond
     \* toward the target and not past it
     /\ (rootQuat' - rootQuat) * (targetQuat - rootQuat') >= 0
     /\ Abs(targetQuat - rootQuat') <= gap
     /\ dt * SlerpRate >= TicksPerSecond => rootQuat' = targetQuat

\* C9 (amended): every frame moves the orientation toward targetQuat by the
\* fraction min(1, 5 dt) of the gap and never past it, a frame with
\* dt >= 0.2 s lands on the target, and no step other than a pointer event
\* increases the distance to the target.
C9_InterpolatesTowardTarget ==
  /\ [][ /\ \A dt \in Deltas : TowardTarget(dt) \/ ~Frame(dt)
         /\ pointerMoves' = pointerMoves =>
               Abs(targetQuat' - rootQuat') <= Abs(targetQuat - rootQuat) ]_vars
  /\ [](\A dt \in FullStep..(FullStep + 1) :
          Slerp(rootQuat, targetQuat, dt) = targetQuat)

\* C9 (as stated): the above, and once pointer events have stopped the
\* orientation eventually equals the target (unless the component is torn
\* down first).
C9_EventuallyReachesTarget ==
  /\ C9_InterpolatesTowardTarget
  /\ \A n \in 0..MaxPointerMoves :
       (pointerMoves = n) ~>
         (rootQuat = targetQuat \/ pointerMoves # n \/ cubePc = "disposed")

\* a frame with dt below 0.2 s has moved the orientation part of the way
C9_Witness ==
  /\ pointerMoves > 0
  /\ rootQuat # 0
  /\ rootQuat # targetQuat
  /\ Abs(targetQuat - rootQuat) < Abs(targetQuat)

\* ------------------------------------------------------------------------
\* HeroCube: teardown
\* ------------------------------------------------------------------------

\* C10: once the cleanup has run, the animation loop is cleared, the
\* pointermove listener removed and the observer disconnected, and nothing of
\* the instance's state changes any more.
C10_TeardownCancelsAll ==
  /\ [](cubePc = "disposed" => ~animLoop /\ ~listening /\ ~observing)
  /\ [][cubePc = "disposed" => cubeVars' = cubeVars]_vars

\* torn down in the middle of a turn and before the orientation had reached
\* the target: later frames would still have had work to do
C10_Witness ==
  /\ cubePc = "disposed"
  /\ turning
  /\ rootQuat # targetQuat

\* ------------------------------------------------------------------------
\* HeroCube: the callbacks side by side
\* ------------------------------------------------------------------------

\* the turn state: the turn's bookkeeping and the scene graph below root
turnVars ==
  <<turning, turnAxis, layer, dir, angle, nextTurnTime, cubelets, rootKids, tgKids, tgRot, net>>

\* C11: a pointer or resize callback leaves the turn state alone, and every
\* step that changes the turn state changes it as the frame callback's turn
\* logic alone would: with pointer and resize events interleaved in any way,
\* the turn state still runs through a behaviour of the frames alone.
C11_CallbacksDoNotInterfere ==
  /\ [][(targetQuat' # targetQuat \/ viewSize' # viewSize) => UNCHANGED turnVars]_vars
  /\ [][\E dt \in Deltas : TurnStep(dt, MaxTurns, SomePicks)]_turnVars

\* in the middle of a turn, after its last frame, the pointer has moved, and
\* the container has been resized
C11_Witness ==
  /\ turning
  /\ angle > 0
  /\ targetQuat # 0
  /\ rootQuat = 0
  /\ viewSize # <<1, 1>>

\* ------------------------------------------------------------------------
\* The pages and the fields of the session's user
\* ------------------------------------------------------------------------

\* both sessions contain a user, or neither does
SamePresence(s1, s2) == HasUser(s1) = HasUser(s2)

\* rendered content with what shows the user's name and image blanked
WithoutUserFields(content) ==
  [content EXCEPT !.avatarSrc = Null, !.avatarAlt = Null, !.userName = Null]

\* C12 (as stated): once a page function has run, it would have produced the
\* same outcome (redirect decision and rendered content) for every other
\* session that agrees with the one it got on whether there is a user.
C12_OutcomeIgnoresUserFields ==
  pgPc = "done" =>
    \A s2 \in Sessions :
      SamePresence(pgSession, s2) => PageFn(pgPath, s2) = pgOut

\* C12 (amended): for every such other session the redirect decision is the
\* same, Home's whole outcome is the same, and ComingSoon's content is the
\* same except for the avatar's src and alt and the displayed name.
C12_OnlyHeaderShowsUser ==
  pgPc = "done" =>
    \A s2 \in Sessions :
      SamePresence(pgSession, s2) =>
        /\ PageFn(pgPath, s2).redirect = pgOut.redirect
        /\ pgPath = "/" => PageFn(pgPath, s2) = pgOut
        /\ WithoutUserFields(PageFn(pgPath, s2).content) = WithoutUserFields(pgOut.content)

\* ComingSoon has rendered for a user, and another session with a user would
\* have been rendered differently
C12_Witness ==
  /\ pgPc = "done" /\ pgPath = "/home"
  /\ HasUser(pgSession)
  /\ pgOut.redirect = NoRedirect
  /\ \E s2 \in Sessions : HasUser(s2) /\ ComingSoon(s2) # pgOut

\* ------------------------------------------------------------------------
\* The buttons' callbacks and unmounting
\* ------------------------------------------------------------------------

\* C13: no timer callback and no continuation of handleSignOut ever calls a
\* state setter (setIsLoading, setIsNotified) of an instance of
\* WatchDemoButton, NotifyMeButton or SignOutButton that has been unmounted.
C13_NoUpdateAfterUnmount == ~staleUpdate

\* ------------------------------------------------------------------------
\* WatchDemoButton
\* ------------------------------------------------------------------------

\* the pending callbacks of the given kind in queue q that the instances of
\* mount g scheduled
TimersOf(q, kind, g) == {j \in 1..Len(q) : q[j].kind = kind /\ q[j].gen = g}

\* the pending reset timers of the mounted WatchDemoButton
OwnResetTimers == Cardinality(TimersOf(timers, "watchDemoReset", gen))

\* the same instances are mounted before and after the step
SameInstances == host' = host /\ gen' = gen

\* C14: for the mounted WatchDemoButton, isLoading is true exactly while its
\* one reset timer is pending, and it never has two; a click is handled
\* exactly when isLoading is false, and it sets isLoading and schedules the
\* timer; the timer's firing sets isLoading false.
C14_WatchDemoCycle ==
  /\ [](Mounted("WatchDemo") =>
         /\ OwnResetTimers <= 1
         /\ isLoading["WatchDemo"] <=> OwnResetTimers = 1
         /\ (ENABLED ClickWatchDemo) <=> ~isLoading["WatchDemo"])
  /\ [][(SameInstances /\ Mounted("WatchDemo")) =>
          LET before == OwnResetTimers
              after == Cardinality(TimersOf(timers', "watchDemoReset", gen))
          IN /\ after > before =>
                  (~isLoading["WatchDemo"] /\ isLoading'["WatchDemo"] /\ after = before + 1)
             /\ after < before => (isLoading["WatchDemo"] /\ ~isLoading'["WatchDemo"])
             /\ (~isLoading["WatchDemo"] /\ isLoading'["WatchDemo"]) => after = 1 ]_vars

\* the button is loading with its one timer pending, while the timer of an
\* earlier instance of it is still pending too
C14_Witness ==
  /\ Mounted("WatchDemo")
  /\ isLoading["WatchDemo"]
  /\ OwnResetTimers = 1
  /\ \E g \in 1..(gen - 1) : TimersOf(timers, "watchDemoReset", g) # {}

\* ------------------------------------------------------------------------
\* NotifyMeButton
\* ------------------------------------------------------------------------

\* what NotifyMeButton renders for the given values of its two flags
NotifyState(loading, notified) ==
  IF notified THEN (IF loading THEN "both" ELSE "notified")
  ELSE IF loading THEN "loading" ELSE "idle"

\* the successor of each state in the button's cycle
NotifyCycle == [idle |-> "loading", loading |-> "notified", notified |-> "idle"]

\* C15: isLoading and isNotified of NotifyMeButton are never both true; a
\* click is handled exactly in idle; while the same instance stays mounted
\* every change of its state is idle to loading, loading to notified or
\* notified to idle, the latter two made by the firing of the instance's one
\* pending timer.
C15_NotifyCycle ==
  /\ [](Mounted("NotifyMe") =>
         LET st == NotifyState(isLoading["NotifyMe"], isNotified)
             done == Cardinality(TimersOf(timers, "notifyDone", gen))
             reset == Cardinality(TimersOf(timers, "notifyReset", gen))
         IN /\ st # "both"
            /\ (ENABLED ClickNotifyMe) <=> st = "idle"
            /\ done = (IF st = "loading" THEN 1 ELSE 0)
            /\ reset = (IF st = "notified" THEN 1 ELSE 0))
  /\ [][(SameInstances /\ Mounted("NotifyMe")) =>
          LET st == NotifyState(isLoading["NotifyMe"], isNotified)
              next == NotifyState(isLoading'["NotifyMe"], isNotified')
          IN next # st =>
               /\ next = NotifyCycle[st]
               /\ st = "idle" => TimersOf(timers', "notifyDone", gen) # {}
               /\ st = "loading" => TimersOf(timers', "notifyReset", gen) # {}
               /\ st # "idle" => Len(timers') <= Len(timers) ]_vars

\* the button shows "Subscribed!" after a click and the 1.5 s timer, with
\* its 3 s reset timer pending
C15_Witness ==
  /\ Mounted("NotifyMe")
  /\ NotifyState(isLoading["NotifyMe"], isNotified) = "notified"
  /\ TimersOf(timers, "notifyReset", gen) # {}

\* ------------------------------------------------------------------------
\* HeroCube: logical indices and layers
\* ------------------------------------------------------------------------

\* the indices the cubelets of the given set carry
IndicesOf(cl, cs) == {cl[c].idx : c \in cs}

\* the index triples of layer l of axis a
LayerCells(a, l) == {v \in Cubelets : v[AxisIndex(a)] = l}

\* C16: in every reachable state the 27 cubelets carry pairwise distinct
\* (i, j, k) indices and together exactly the set {-1, 0, 1}^3; the
\* relabeling of a turn maps the nine cells of each layer onto the same nine
\* cells, so that a further turn keeps it so.
C16_IndicesArePermutation ==
  /\ \A c1, c2 \in Cubelets : c1 # c2 => cubelets[c1].idx # cubelets[c2].idx
  /\ IndicesOf(cubelets, Cubelets) = Cubelets
  /\ \A a \in Axes, l \in Layers, d \in Dirs :
       {RotIndex(a, d, v) : v \in LayerCells(a, l)} = LayerCells(a, l)

\* two turns have been completed and have moved cubelets to other cells
C16_Witness ==
  /\ ~turning
  /\ Len(net) = 2
  /\ \E c \in Cubelets : cubelets[c].idx # c

\* some cubelet's indices differ between the two index maps: the frame has
\* run bakeAndUpdateIndices on a layer of moved cubelets
Relabeled(cl1, cl2) == \E c \in Cubelets : cl1[c].idx # cl2[c].idx

\* C17: in the frame that bakes a turn of layer l of axis a, every cubelet
\* whose index on a differs from l keeps its (i, j, k), every cubelet of the
\* layer keeps its index on a equal to l, and the set of cubelets of layer l
\* of a is the same after as before; no other frame changes an index.
C17_BakeChangesOnlyLayer ==
  [][LET a == turnAxis'
         l == layer'
         n == AxisIndex(a)
     IN /\ \A c \in Cubelets :
             /\ cubelets[c].idx[n] # l => cubelets'[c].idx = cubelets[c].idx
             /\ cubelets[c].idx[n] = l => cubelets'[c].idx[n] = l
        /\ InLayer(cubelets', a, l) = InLayer(cubelets, a, l)
        /\ Relabeled(cubelets, cubelets') => (~turning' /\ angle' >= SnapThreshold)]_vars

\* a turn has just been baked: cubelets of its layer carry new indices in
\* the layer, and a cubelet outside it is where it started
C17_Witness ==
  /\ TurnCompleted
  /\ Len(net) = 1
  /\ \E c \in InLayer(cubelets, turnAxis, layer) : cubelets[c].idx # c
  /\ \E c \in Cubelets \ InLayer(cubelets, turnAxis, layer) : cubelets[c].idx = c

\* the relabeling of layer l of axis a applied n times in direction d
RECURSIVE RelabelTimes(_, _, _, _, _)
RelabelTimes(cl, a, l, d, n) ==
  IF n = 0 THEN cl ELSE RelabelTimes(RelabelLayer(cl, a, l, d), a, l, d, n - 1)

\* C18: for every axis, layer and direction, the relabeling applied four
\* times gives every cubelet its (i, j, k) back, and so does the relabeling
\* applied once in one direction and then once in the other, in either order.
C18_RelabelIsQuarterTurn ==
  \A a \in Axes, l \in Layers, d \in Dirs :
    /\ RelabelTimes(cubelets, a, l, d, 4) = cubelets
    /\ RelabelLayer(RelabelLayer(cubelets, a, l, d), a, l, -d) = cubelets

\* an index map on which two relabelings have acted: some cubelet is in
\* another layer of x and in another layer of y than at the start
C18_Witness ==
  /\ Len(net) = 2
  /\ \E c \in Cubelets : cubelets[c].idx[1] # c[1] /\ cubelets[c].idx[2] # c[2]

\* ------------------------------------------------------------------------
\* HeroCube: one turn at a time
\* ------------------------------------------------------------------------

\* the step begins a turn: it picks turnAxis, layer and dir (net records the
\* pick) or sets turning
TurnBegins == net' # net \/ (~turning /\ turning')

\* the turn bookkeeping after the step
BookkeepingAfter ==
  [turning |-> turning', turnAxis |-> turnAxis', layer |-> layer',
   angle |-> angle', dir |-> dir', nextTurnTime |-> nextTurnTime']

\* C19: a turn begins only in a frame that finds turning false and, after
\* its nextTurnTime -= dt, nextTurnTime <= 0; and a step taken while turning
\* is true begins no turn and leaves turnAxis, layer and dir as they are.
C19_OneTurnAtATime ==
  /\ [][TurnBegins =>
          /\ ~turning
          /\ net' = NetAfter(net, <<turnAxis', layer', dir'>>)
          /\ \E dt \in Deltas, pause \in Pauses \cup {0} :
               /\ nextTurnTime - dt <= 0
               /\ Starts(dt)
               /\ BookkeepingAfter = TurnLogic(dt, turnAxis', layer', dir', pause)]_vars
  /\ [][turning => (~TurnBegins /\ UNCHANGED <<turnAxis, layer, dir>>)]_vars
  /\ [][(~turning /\ ~TurnBegins) => UNCHANGED <<turnAxis, layer, dir, tgKids>>]_vars

\* a turn is under way and the countdown is below zero: only the test of
\* turning keeps the next frame from beginning a turn
C19_Witness ==
  /\ turning
  /\ angle > 0
  /\ angle < SnapThreshold
  /\ nextTurnTime < 0
  /\ tgKids # {}

\* number of cubelets in one layer
LayerSize == 9

\* C20: every cubelet is a child of exactly one of root and turnGroup; while
\* turning is true turnGroup holds exactly the 9 cubelets whose index on
\* turnAxis equals layer, and while turning is false it holds none.
C20_ParentingInvariant ==
  /\ rootKids \cup tgKids = Cubelets
  /\ rootKids \cap tgKids = {}
  /\ turning => (tgKids = InLayer(cubelets, turnAxis, layer) /\ Cardinality(tgKids) = LayerSize)
  /\ ~turning => tgKids = {}

\* a layer is attached to turnGroup and partly turned, the other 18
\* cubelets are children of root
C20_Witness ==
  /\ turning
  /\ tgRot # NoRotation
  /\ Cardinality(tgKids) = LayerSize
  /\ Cardinality(rootKids) = Cardinality(Cubelets) - LayerSize

\* ------------------------------------------------------------------------
\* HeroCube: the pause between turns
\* ------------------------------------------------------------------------

\* 1.6 + Math.random() * 1.2 lies in [1.6, 2.8)
MinPause == 16000

MaxPause == 28000

\* the step completes a turn: one in progress, or one it begins itself
TurnCompletes == (turning \/ TurnBegins) /\ ~turning'

\* C21: a turn begins only in a frame with which the frame time counted
\* since mount (for the first turn) or since the latest completion (for a
\* later one) reaches the pause in force: 1.8 s at first, afterwards the
\* pause chosen at the completion, at least 1.6 s and below 2.8 s; the frame
\* that completes a turn puts the whole chosen pause ahead, whatever frame
\* time the turn took.
C21_PauseBetweenTurns ==
  /\ [](/\ turning <=> pauseClock.kind = "none"
        /\ pauseClock.kind = "first" => pauseClock.pause = FirstTurnDelay
        /\ pauseClock.kind = "later" =>
             (pauseClock.pause >= MinPause /\ pauseClock.pause < MaxPause)
        /\ ~turning => nextTurnTime = pauseClock.pause - pauseClock.elapsed)
  /\ [][TurnBegins =>
          \E dt \in Deltas, pause \in Pauses \cup {0} :
            /\ Starts(dt)
            /\ BookkeepingAfter = TurnLogic(dt, turnAxis', layer', dir', pause)
            /\ pauseClock.elapsed + dt >= pauseClock.pause
            /\ pauseClock.elapsed + dt >=
                 (IF pauseClock.kind = "first" THEN FirstTurnDelay ELSE MinPause)]_vars
  /\ [][TurnCompletes =>
          /\ nextTurnTime' >= MinPause
          /\ nextTurnTime' < MaxPause
          /\ pauseClock' = [kind |-> "later", pause |-> nextTurnTime', elapsed |-> 0]]_vars

\* a later turn is under way (it is undoing the turn before it): it began
\* when the frame time counted since that turn's completion had reached the
\* pause chosen then
C21_Witness ==
  /\ turning
  /\ angle > 0
  /\ net = <<>>
  /\ nextTurnTime < 0

\* ------------------------------------------------------------------------
\* SignOutButton
\* ------------------------------------------------------------------------

\* the signOut() call of the mounted SignOutButton is in flight
OwnSignOutPending == gen \in soPending

\* C22: the mounted SignOutButton makes a signOut call only from a click
\* handled while its isLoading is false and no call of its own is in flight;
\* isLoading is true for as long as its call is in flight; only the
\* rejection of its own call sets isLoading false again, so after its call
\* has fulfilled isLoading stays true and the instance makes no further call.
C22_OneSignOutInFlight ==
  /\ []((Mounted("SignOut") /\ OwnSignOutPending) => isLoading["SignOut"])
  /\ []((ENABLED ClickSignOut) => (~isLoading["SignOut"] /\ ~OwnSignOutPending))
  /\ [][soCalls' # soCalls =>
          /\ Mounted("SignOut")
          /\ ~isLoading["SignOut"]
          /\ ~OwnSignOutPending
          /\ isLoading'["SignOut"]
          /\ soPending' = soPending \cup {gen}
          /\ soCalls' = soCalls + 1]_vars
  /\ [][(Loading("SignOut") /\ SameInstances) =>
          \/ isLoading'["SignOut"]
          \/ /\ OwnSignOutPending
             /\ gen \notin soPending'
             /\ soRejections' = soRejections + 1]_vars

\* the button's signOut call has fulfilled and the document is about to
\* load "/": the instance is still mounted, with isLoading true
C22_Witness ==
  /\ Mounted("SignOut")
  /\ isLoading["SignOut"]
  /\ ~OwnSignOutPending
  /\ nav = "/"
  /\ soCalls > 0

\* ------------------------------------------------------------------------
\* The two routes under one session
\* ------------------------------------------------------------------------

\* the page a navigation ends on under session s
RendersFor(s) ==
  IF HasUser(s) THEN "/home" ELSE "/"

\* C23: while the session stays the same during a navigation, a request to
\* "/" or "/home" is redirected at most once: the page reached by a redirect
\* renders, and the page that renders is "/home" with the coming-soon
\* content when the session has a user and "/" with the landing content
\* otherwise; for every session a redirect of either page leads to a page
\* that does not redirect.
C23_NoRedirectLoop ==
  /\ pgHops <= 1
  /\ (pgPc = "done" /\ pgHops = 1) => pgOut.redirect = NoRedirect
  /\ (pgPc = "done" /\ pgOut.redirect # NoRedirect) => ENABLED FollowRedirect
  /\ (pgPc = "done" /\ pgOut.redirect = NoRedirect) =>
       /\ pgPath = RendersFor(pgSession)
       /\ pgOut.content.page = (IF HasUser(pgSession) THEN "coming-soon" ELSE "landing")
  /\ \A s \in Sessions, p \in Routes :
       LET out == PageFn(p, s)
       IN out.redirect # NoRedirect =>
            /\ out.redirect \in Routes \ {p}
            /\ PageFn(out.redirect, s).redirect = NoRedirect

\* "/home" was requested under a session without a user: one redirect, and
\* the landing page has rendered
C23_Witness ==
  /\ pgPc = "done"
  /\ pgHops = 1
  /\ pgPath = "/"
  /\ pgSession.present /\ ~HasUser(pgSession)
  /\ pgOut.content = LandingContent

\* ------------------------------------------------------------------------
\* The SignIn page
\* ------------------------------------------------------------------------

\* the signIn() calls made by the SignIn instance of mount g
SignInCallsOf(g) == {j \in 1..Len(siCalls) : siCalls[j].gen = g}

\* C24: every signIn call is signIn("google", { callbackUrl: "/home" }); the
\* SignIn page of a mount has made none before its first render, exactly one
\* once the effects of a render are flushed, and never two; the call is made
\* by the effects of the mount's first render, not by those of a re-render.
C24_SignInOncePerMount ==
  /\ [](\A j \in 1..Len(siCalls) :
          siCalls[j].provider = "google" /\ siCalls[j].callbackUrl = "/home")
  /\ [](\A g \in 0..gen : Cardinality(SignInCallsOf(g)) <= 1)
  /\ []((host = "signin" /\ RendersNow = 0) => SignInCallsOf(gen) = {})
  /\ []((host = "signin" /\ RendersNow > 0 /\ ~siEffectsDue) =>
          Cardinality(SignInCallsOf(gen)) = 1)
  /\ [][siCalls' # siCalls =>
          /\ host = "signin"
          /\ siRenders.gen = gen /\ siRenders.n = 1
          /\ Len(siCalls') = Len(siCalls) + 1]_vars

\* the mounted page has rendered again after its mount, the effects of that
\* render are flushed, and its one signIn call is the only one
C24_Witness ==
  /\ host = "signin"
  /\ RendersNow > 1
  /\ ~siEffectsDue
  /\ Cardinality(SignInCallsOf(gen)) = 1

====
